---- MODULE Spec2Model ----
(***************************************************************************)
(* Model of app/core/rate_limiting.py: the RateLimiter admission engine    *)
(* (sliding window, fixed window and token bucket against a Redis store,   *)
(* plus the in-memory fallback), its peek (get_rate_limit_info) and its    *)
(* reset (reset_rate_limit), and of RateLimitMiddleware in                 *)
(* app/middleware.py, which looks up the limit of a request and checks it. *)
(*                                                                         *)
(* Time is the integer clock int(time.time()).  Token counts are Lua       *)
(* floats in the source; they are modelled as exact rationals <<n, d>>     *)
(* (floating-point rounding is not modelled).                              *)
(***************************************************************************)
EXTENDS Integers, Sequences, FiniteSets, TLC

\* ---------------------------------------------------------------- bounds
\* First clock reading of a behaviour (a time.time() far from zero).
Epoch == 100
\* The clock runs from Epoch to Epoch + Horizon.
Horizon == 3
\* Costs of a check range over 0..MaxCost.
MaxCost == 2
\* Number of check_rate_limit calls in a behaviour.
MaxCalls == 3
\* Number of check_rate_limit calls in a behaviour of the scenarios.
ScenarioCalls == 12

\* ------------------------------------------------------ program constants
\* limit.window + 60: lifetime of a sliding / fixed key after a check.
GraceSeconds == 60
\* EXPIRE key 3600 in the token bucket script.
BucketTTL == 3600
\* len(self._memory_store) > 1000 triggers the inline cleanup.
CleanupThreshold == 1000
\* cutoff_time = current_time - 3600 in _cleanup_memory_store.
RetentionSeconds == 3600
\* burst_multiplier: float = 1.5, as the fraction BurstNum / BurstDen.
BurstNum == 3
BurstDen == 2

\* ----------------------------------------------------------------- types
FIXED_WINDOW == "fixed_window"
SLIDING_WINDOW == "sliding_window"
TOKEN_BUCKET == "token_bucket"
RateLimitStrategy == {FIXED_WINDOW, SLIDING_WINDOW, TOKEN_BUCKET}

RateLimit(requests, window, strategy) ==
    [requests |-> requests, window |-> window, strategy |-> strategy]

\* Identifiers are "user_<digits>": the sequence of digits stands for the
\* string, so that the glob match of reset_rate_limit can be computed.
user_1 == <<1>>
user_10 == <<1, 0>>
Ids == {user_1, user_10}

\* limit: Optional[RateLimit] = None.
NoLimit == RateLimit(0, 0, "none")
\* self.default_limit (RateLimit(100, 60) in the source, scaled down; the
\* default strategy is the sliding window).
default_limit == RateLimit(2, 2, SLIDING_WINDOW)

\* The tables of limit arguments the callers of one process pass to
\* check_rate_limit: a behaviour of the general specification uses one.
Presets ==
    { {NoLimit},
      {RateLimit(1, 1, SLIDING_WINDOW)},
      {RateLimit(2, 2, FIXED_WINDOW)},
      {RateLimit(2, 3, TOKEN_BUCKET)} }

\* The limit arguments passed to get_rate_limit_info.
PeekLimits == UNION Presets

Costs == 0..MaxCost

\* ------------------------------------------------------------- rationals
RECURSIVE GCD(_, _)
GCD(a, b) == IF b = 0 THEN a ELSE GCD(b, a % b)

\* A rational n/d (d > 0) in lowest terms.
Rat(n, d) == LET g == GCD(n, d) IN <<n \div g, d \div g>>
RatInt(n) == <<n, 1>>
RatAdd(x, y) == Rat(x[1] * y[2] + y[1] * x[2], x[2] * y[2])
RatLeq(x, y) == x[1] * y[2] <= y[1] * x[2]
RatMin(x, y) == IF RatLeq(x, y) THEN x ELSE y
\* x - n for an integer n <= x.
RatSubInt(x, n) == Rat(x[1] - n * x[2], x[2])
\* Truncation toward zero to an integer (Lua number -> Redis integer
\* reply, int()).
RatTrunc(x) ==
    IF x[1] >= 0 THEN x[1] \div x[2] ELSE 0 - ((0 - x[1]) \div x[2])

\* ------------------------------------------------------ finite functions
Put(f, k, v) == [x \in (DOMAIN f) \cup {k} |-> IF x = k THEN v ELSE f[x]]
Del(f, ks) == [x \in (DOMAIN f) \ ks |-> f[x]]
EmptyMap == [x \in {} |-> 0]
Max(a, b) == IF a >= b THEN a ELSE b

\* ------------------------------------------------------- Redis primitives
\* A sorted-set member "{current_time}:{cost}" is the pair <<time, cost>>;
\* its score is the time.  ZADD of a member already present adds nothing.
Member(current_time, cost) == <<current_time, cost>>
Score(m) == m[1]

\* Mutant: the bounds passed in the wrong order (nothing is removed).
ZRemRangeByScore_swapped(members, lo, hi) ==
    {m \in members : ~(hi <= Score(m) /\ Score(m) <= lo)}

\* ZREMRANGEBYSCORE key lo hi: both ends inclusive.
ZRemRangeByScore(members, lo, hi) ==
    {m \in members : ~(lo <= Score(m) /\ Score(m) <= hi)}

\* The members of a sorted-set key (a missing key is the empty set).
ZMembers(zs, key) == IF key \in DOMAIN zs THEN zs[key].members ELSE {}

\* Keys whose time to live has run out are gone.
Alive(db, t) == [k \in {x \in DOMAIN db : db[x].exp > t} |-> db[k]]

\* -------------------------------------------------------------- decisions
RateInfo(exceeded, limit, remaining, reset_time, retry_after, strategy) ==
    [exceeded |-> exceeded, limit |-> limit, remaining |-> remaining,
     reset_time |-> reset_time, retry_after |-> retry_after,
     strategy |-> strategy]

NoInfo == RateInfo(FALSE, 0, 0, 0, 0, "none")

\* Mutant: the burst allowance is never applied.
MaxRequests_unburst(burst, limit) == limit.requests

\* max_requests of the sliding window: int(limit.requests * burst_multiplier).
MaxRequests(burst, limit) ==
    IF burst THEN (limit.requests * BurstNum) \div BurstDen ELSE limit.requests

\* Mutant: remaining is computed before the cost of the check is added.
sliding_window_redis_remaining_before(zs, burst, identifier, limit, cost, current_time) ==
    LET key == identifier
        window_start == current_time - limit.window
        pruned == ZRemRangeByScore(ZMembers(zs, key), 0, window_start)
        zcard == Cardinality(pruned)
        added == pruned \cup {Member(current_time, cost)}
        current_requests == zcard + cost
        max_requests == MaxRequests(burst, limit)
        exceeded == current_requests > max_requests
        remaining == Max(0, limit.requests - zcard)
        retry_after == IF exceeded THEN limit.window ELSE 0
    IN  [zsets |-> Put(zs, key, [members |-> added,
                                 exp |-> current_time + limit.window + GraceSeconds]),
         info |-> RateInfo(exceeded, limit.requests, remaining,
                           current_time + limit.window, retry_after,
                           limit.strategy)]

\* _sliding_window_redis: the MULTI/EXEC pipeline and the decision.
sliding_window_redis(zs, burst, identifier, limit, cost, current_time) ==
    LET key == identifier
        window_start == current_time - limit.window
        pruned == ZRemRangeByScore(ZMembers(zs, key), 0, window_start)
        zcard == Cardinality(pruned)
        added == pruned \cup {Member(current_time, cost)}
        current_requests == zcard + cost
        max_requests == MaxRequests(burst, limit)
        exceeded == current_requests > max_requests
        remaining == Max(0, limit.requests - current_requests)
        retry_after == IF exceeded THEN limit.window ELSE 0
    IN  [zsets |-> Put(zs, key, [members |-> added,
                                 exp |-> current_time + limit.window + GraceSeconds]),
         info |-> RateInfo(exceeded, limit.requests, remaining,
                           current_time + limit.window, retry_after,
                           limit.strategy)]

\* Mutant: the limit itself already counts as exceeded.
fixed_window_redis_inclusive(cs, identifier, limit, cost, current_time) ==
    LET window_start == (current_time \div limit.window) * limit.window
        key == <<identifier, window_start>>
        old == IF key \in DOMAIN cs THEN cs[key].val ELSE 0
        current_requests == old + cost
        exceeded == current_requests >= limit.requests
        remaining == Max(0, limit.requests - current_requests)
        reset_time == window_start + limit.window
        retry_after == IF exceeded THEN reset_time - current_time ELSE 0
    IN  [counters |-> Put(cs, key, [val |-> current_requests,
                                    exp |-> current_time + limit.window + GraceSeconds]),
         info |-> RateInfo(exceeded, limit.requests, remaining, reset_time,
                           retry_after, limit.strategy)]

\* Mutant: a denied check is not charged to the counter.
fixed_window_redis_uncharged(cs, identifier, limit, cost, current_time) ==
    LET window_start == (current_time \div limit.window) * limit.window
        key == <<identifier, window_start>>
        old == IF key \in DOMAIN cs THEN cs[key].val ELSE 0
        current_requests == old + cost
        exceeded == current_requests > limit.requests
        remaining == Max(0, limit.requests - current_requests)
        reset_time == window_start + limit.window
        retry_after == IF exceeded THEN reset_time - current_time ELSE 0
    IN  [counters |-> Put(cs, key, [val |-> IF exceeded THEN old
                                            ELSE current_requests,
                                    exp |-> current_time + limit.window + GraceSeconds]),
         info |-> RateInfo(exceeded, limit.requests, remaining, reset_time,
                           retry_after, limit.strategy)]

\* _fixed_window_redis: GET, INCRBY, EXPIRE in one transaction.
fixed_window_redis(cs, identifier, limit, cost, current_time) ==
    LET window_start == (current_time \div limit.window) * limit.window
        key == <<identifier, window_start>>
        old == IF key \in DOMAIN cs THEN cs[key].val ELSE 0
        current_requests == old + cost
        exceeded == current_requests > limit.requests
        remaining == Max(0, limit.requests - current_requests)
        reset_time == window_start + limit.window
        retry_after == IF exceeded THEN reset_time - current_time ELSE 0
    IN  [counters |-> Put(cs, key, [val |-> current_requests,
                                    exp |-> current_time + limit.window + GraceSeconds]),
         info |-> RateInfo(exceeded, limit.requests, remaining, reset_time,
                           retry_after, limit.strategy)]

\* Mutant: the refill is not capped at the capacity.
Refill_uncapped(tokens, capacity, time_passed, limit) ==
    RatAdd(tokens, Rat(time_passed * limit.requests, limit.window))

\* The refill of the Lua script: min(capacity, tokens + time_passed * rate).
Refill(tokens, capacity, time_passed, limit) ==
    RatMin(RatInt(capacity),
           RatAdd(tokens, Rat(time_passed * limit.requests, limit.window)))

\* _token_bucket_redis: the Lua script and the decision.  The script's
\* reply {can_consume, tokens} reaches the client as integers, the token
\* count truncated.
token_bucket_redis(bs, identifier, limit, cost, current_time) ==
    LET key == identifier
        capacity == limit.requests
        stored == key \in DOMAIN bs
        tokens0 == IF stored THEN bs[key].tokens ELSE RatInt(capacity)
        last_refill == IF stored THEN bs[key].last_refill ELSE current_time
        time_passed == current_time - last_refill
        tokens1 == Refill(tokens0, capacity, time_passed, limit)
        can_consume == RatLeq(RatInt(cost), tokens1)
        tokens2 == IF can_consume THEN RatSubInt(tokens1, cost) ELSE tokens1
        remaining_tokens == RatTrunc(tokens2)
        retry_after ==
            IF can_consume THEN 0
            \* refill_rate = 0.0: the division raises (DivisionByZeroAfter)
            ELSE IF limit.requests = 0 THEN 0
            ELSE (((cost - remaining_tokens) * limit.window) \div limit.requests) + 1
    IN  [buckets |-> Put(bs, key, [tokens |-> tokens2,
                                   last_refill |-> current_time,
                                   exp |-> current_time + BucketTTL]),
         info |-> RateInfo(~can_consume, limit.requests, remaining_tokens,
                           current_time + limit.window, retry_after,
                           limit.strategy)]

\* ------------------------------------------------------ in-memory fallback
\* Mutant: an identifier idle for exactly the retention is dropped too.
cleanup_memory_store_inclusive(ms, current_time) ==
    LET cutoff_time == current_time - RetentionSeconds
        to_remove == {i \in DOMAIN ms : ms[i].last_access <= cutoff_time}
    IN  Del(ms, to_remove)

\* _cleanup_memory_store: drop the identifiers idle for more than an hour.
cleanup_memory_store(ms, current_time) ==
    LET cutoff_time == current_time - RetentionSeconds
        to_remove == {i \in DOMAIN ms : ms[i].last_access < cutoff_time}
    IN  Del(ms, to_remove)

Repeat(x, n) == [i \in 1..n |-> x]

\* Mutant: the lower bound of the window is excluded.
InWindow_strict(requests, window_start) ==
    SelectSeq(requests, LAMBDA req : req > window_start)

\* [req for req in user_data["requests"] if req >= window_start]
InWindow(requests, window_start) ==
    SelectSeq(requests, LAMBDA req : req >= window_start)

\* Mutant: the fallback reports the strategy of the limit.
check_memory_rate_limit_by_strategy(ms, identifier, limit, cost, current_time) ==
    LET ms1 == IF Cardinality(DOMAIN ms) > CleanupThreshold
               THEN cleanup_memory_store(ms, current_time) ELSE ms
        requests0 == IF identifier \in DOMAIN ms1
                     THEN ms1[identifier].requests ELSE <<>>
        window_start == current_time - limit.window
        kept == InWindow(requests0, window_start)
        current_requests == Len(kept) + cost
        exceeded == current_requests > limit.requests
        remaining == Max(0, limit.requests - current_requests)
        requests1 == IF exceeded THEN kept ELSE kept \o Repeat(current_time, cost)
    IN  [memory_store |-> Put(ms1, identifier, [requests |-> requests1,
                                                last_access |-> current_time]),
         info |-> RateInfo(exceeded, limit.requests, remaining,
                           current_time + limit.window,
                           IF exceeded THEN limit.window ELSE 0,
                           limit.strategy)]

\* _check_memory_rate_limit.
check_memory_rate_limit(ms, identifier, limit, cost, current_time) ==
    LET ms1 == IF Cardinality(DOMAIN ms) > CleanupThreshold
               THEN cleanup_memory_store(ms, current_time) ELSE ms
        requests0 == IF identifier \in DOMAIN ms1
                     THEN ms1[identifier].requests ELSE <<>>
        window_start == current_time - limit.window
        kept == InWindow(requests0, window_start)
        current_requests == Len(kept) + cost
        exceeded == current_requests > limit.requests
        remaining == Max(0, limit.requests - current_requests)
        requests1 == IF exceeded THEN kept ELSE kept \o Repeat(current_time, cost)
    IN  [memory_store |-> Put(ms1, identifier, [requests |-> requests1,
                                                last_access |-> current_time]),
         info |-> RateInfo(exceeded, limit.requests, remaining,
                           current_time + limit.window,
                           IF exceeded THEN limit.window ELSE 0,
                           "memory_fallback")]

\* -------------------------------------------------------------------- peek
PeekInfo(limit, remaining, reset_time, current_requests) ==
    [limit |-> limit, remaining |-> remaining, reset_time |-> reset_time,
     current_requests |-> current_requests]

\* get_rate_limit_info on the Redis path: ZREMRANGEBYSCORE and ZCARD on the
\* sliding-window key, whatever limit.strategy is.  A sorted set left empty
\* is removed by the server; the time to live is not touched.
get_rate_limit_info_redis(zs, identifier, limit, current_time) ==
    LET key == identifier
        window_start == current_time - limit.window
        pruned == ZRemRangeByScore(ZMembers(zs, key), 0, window_start)
        current_requests == Cardinality(pruned)
        remaining == Max(0, limit.requests - current_requests)
    IN  [zsets |-> IF key \notin DOMAIN zs THEN zs
                   ELSE IF pruned = {} THEN Del(zs, {key})
                   ELSE Put(zs, key, [members |-> pruned, exp |-> zs[key].exp]),
         info |-> PeekInfo(limit.requests, remaining,
                           current_time + limit.window, current_requests)]

\* get_rate_limit_info on the memory path: reads only.
get_rate_limit_info_memory(ms, identifier, limit, current_time) ==
    LET window_start == current_time - limit.window
        current_requests ==
            IF identifier \notin DOMAIN ms THEN 0
            ELSE Len(InWindow(ms[identifier].requests, window_start))
        remaining == Max(0, limit.requests - current_requests)
    IN  PeekInfo(limit.requests, remaining, current_time + limit.window,
                 current_requests)

\* ------------------------------------------------------------------- reset
IsPrefix(a, b) == Len(a) <= Len(b) /\ SubSeq(b, 1, Len(a)) = a

\* KEYS rate_limit:*:{identifier}* : the keys of every identifier the
\* argument is a prefix of (identifiers hold no ':' and are no prefix of a
\* window start).
KeyMatches(identifier, other) == IsPrefix(identifier, other)

\* ------------------------------------------------------------- exceptions
NoExc == [status_code |-> 0, error_code |-> "none",
          details |-> EmptyMap, headers |-> EmptyMap]

\* RateLimitExceededException.__init__: a detail or header is set only when
\* its argument is truthy.
RateLimitExceededException(retry_after, limit, window) ==
    LET value == [k \in {"limit", "window_seconds", "retry_after_seconds"} |->
                    CASE k = "limit" -> limit
                      [] k = "window_seconds" -> window
                      [] OTHER -> retry_after]
    IN  [status_code |-> 429, error_code |-> "RATE_LIMIT_EXCEEDED",
         details |-> [k \in {x \in DOMAIN value : value[x] # 0} |-> value[k]],
         headers |-> [k \in (IF retry_after # 0 THEN {"Retry-After"} ELSE {})
                        |-> retry_after]]

VARIABLES
    now,            \* int(time.time())
    redis_lib,      \* _get_redis returns a client (library imported, pool built)
    enable_burst,   \* self.enable_burst
    zsets,          \* rate_limit:sliding:{id} -> [members, exp]
    counters,       \* rate_limit:fixed:{id}:{window_start} -> [val, exp]
    buckets,        \* rate_limit:bucket:{id} -> [tokens, last_refill, exp]
    memory_store,   \* self._memory_store
    last,           \* the last call at this clock reading and its outcome
    history,        \* the checks decided so far, by identifier and time
    calls,          \* number of check_rate_limit calls made
    presets,        \* the limit arguments the callers pass
    tasks,          \* the check_rate_limit coroutines in flight
    response        \* the request last dispatched and what answered it

vars == <<now, redis_lib, enable_burst, zsets, counters, buckets,
          memory_store, last, history, calls, presets, tasks, response>>


\* What the caller of a call observed.
Call(op, identifier, limit, cost, path, raised, info, exc) ==
    [op |-> op, identifier |-> identifier, limit |-> limit, cost |-> cost,
     path |-> path, raised |-> raised, info |-> info, exc |-> exc]

\* No call since the clock last moved.
Idle == Call("none", <<>>, NoLimit, 0, "none", "none", NoInfo, NoExc)

\* What RateLimitMiddleware.dispatch did with a request: the limit it looked
\* up, how many times it called call_next, the status and headers of the
\* response it returned, or the exception that left it.
Response(path, method, rate_limit, passed, status_code, headers, raised) ==
    [path |-> path, method |-> method, rate_limit |-> rate_limit,
     passed |-> passed, status_code |-> status_code, headers |-> headers,
     raised |-> raised]

\* No request has been dispatched.
NoResponse == Response(<<>>, "none", NoLimit, 0, 0, EmptyMap, "none")

\* The callers whose check_rate_limit coroutines run on the one event loop.
Callers == {"a", "b"}

\* The four stores as one value.
Stores(zs, cs, bs, ms) ==
    [zsets |-> zs, counters |-> cs, buckets |-> bs, memory_store |-> ms]
NoStores == Stores(EmptyMap, EmptyMap, EmptyMap, EmptyMap)

\* A coroutine of check_rate_limit: where it is suspended (pc), its
\* arguments, the clock reading it took, the stores as they were when it
\* was last suspended, and the decision it returned.
Task(pc, identifier, limit, cost, current_time, seen, info) ==
    [pc |-> pc, identifier |-> identifier, limit |-> limit, cost |-> cost,
     current_time |-> current_time, seen |-> seen, info |-> info]
NoTask == Task("idle", <<>>, NoLimit, 0, 0, NoStores, NoInfo)

\* history[id][t]: the checks decided for id at clock reading t since its
\* last reset: their number n and the units (costs) of the admitted ones.
NoChecks == [n |-> 0, units |-> 0]
ChecksAt(h, t) == IF t \in DOMAIN h THEN h[t] ELSE NoChecks
Record(h, t, cost, info) ==
    Put(h, t, [n |-> ChecksAt(h, t).n + 1,
               units |-> ChecksAt(h, t).units
                         + (IF info.exceeded THEN 0 ELSE cost)])

\* limit = self.default_limit when the argument is None.
LimitOf(arg) == IF arg = NoLimit THEN default_limit ELSE arg

UsesSliding(table) ==
    \E arg \in table : LimitOf(arg).strategy = SLIDING_WINDOW

Init ==
    /\ now = Epoch
    /\ redis_lib \in BOOLEAN
    /\ presets \in Presets
    \* enable_burst is read by the Redis sliding window alone: elsewhere
    \* it keeps its default.
    /\ enable_burst \in IF redis_lib /\ UsesSliding(presets)
                        THEN BOOLEAN ELSE {TRUE}
    /\ zsets = EmptyMap
    /\ counters = EmptyMap
    /\ buckets = EmptyMap
    /\ memory_store = EmptyMap
    /\ last = Idle
    /\ history = [i \in Ids |-> EmptyMap]
    /\ calls = 0
    /\ tasks = [c \in Callers |-> NoTask]
    /\ response = NoResponse

\* _check_redis_rate_limit: dispatch on limit.strategy.
check_redis_rate_limit(zs, cs, bs, burst, identifier, limit, cost, current_time) ==
    CASE limit.strategy = SLIDING_WINDOW ->
            LET r == sliding_window_redis(zs, burst, identifier, limit, cost,
                                          current_time)
            IN  [zsets |-> r.zsets, counters |-> cs, buckets |-> bs,
                 info |-> r.info]
      [] limit.strategy = FIXED_WINDOW ->
            LET r == fixed_window_redis(cs, identifier, limit, cost,
                                        current_time)
            IN  [zsets |-> zs, counters |-> r.counters, buckets |-> bs,
                 info |-> r.info]
      [] limit.strategy = TOKEN_BUCKET ->
            LET r == token_bucket_redis(bs, identifier, limit, cost,
                                        current_time)
            IN  [zsets |-> zs, counters |-> cs, buckets |-> r.buckets,
                 info |-> r.info]

\* Mutant: the exception is raised whenever nothing remains.
Raised_when_none_remains(info) ==
    IF info.remaining = 0 THEN "RateLimitExceededException" ELSE "none"

\* The tail of check_rate_limit: raise when exceeded, else return rate_info.
Raised(info) == IF info.exceeded THEN "RateLimitExceededException" ELSE "none"

Outcome(identifier, limit, cost, path, info) ==
    Call("check", identifier, limit, cost, path, Raised(info), info,
         IF Raised(info) = "none" THEN NoExc
         ELSE RateLimitExceededException(info.retry_after, limit.requests,
                                         limit.window))

\* current_time // limit.window (fixed window) and limit.requests /
\* limit.window (token bucket) are computed before the store is called.
DivisionByZeroBefore(limit) ==
    limit.window = 0 /\ limit.strategy \in {FIXED_WINDOW, TOKEN_BUCKET}

\* (cost - remaining_tokens) / refill_rate, computed after the script has
\* run, for a denied token-bucket check with refill_rate = 0.0.
DivisionByZeroAfter(limit, info) ==
    limit.strategy = TOKEN_BUCKET /\ limit.requests = 0 /\ info.exceeded

\* check_rate_limit(identifier, limit, cost); store_up tells whether the
\* Redis server answers this call.
check_rate_limit(identifier, arg, cost, store_up) ==
    LET limit == LimitOf(arg) IN
    /\ IF redis_lib
       THEN IF DivisionByZeroBefore(limit)
            THEN /\ last' = Call("check", identifier, limit, cost, "redis",
                                 "ZeroDivisionError", NoInfo, NoExc)
                 /\ UNCHANGED <<zsets, counters, buckets, memory_store, history>>
            ELSE IF store_up
            THEN LET r == check_redis_rate_limit(zsets, counters, buckets,
                                                 enable_burst, identifier,
                                                 limit, cost, now)
                 IN  /\ zsets' = r.zsets
                     /\ counters' = r.counters
                     /\ buckets' = r.buckets
                     /\ IF DivisionByZeroAfter(limit, r.info)
                        THEN /\ last' = Call("check", identifier, limit, cost,
                                             "redis", "ZeroDivisionError",
                                             NoInfo, NoExc)
                             /\ UNCHANGED history
                        ELSE /\ last' = Outcome(identifier, limit, cost,
                                                "redis", r.info)
                             /\ history' = [history EXCEPT ![identifier] =
                                                Record(@, now, cost, r.info)]
                     /\ UNCHANGED memory_store
            ELSE \* pipe.execute() / eval() raises, nothing catches it
                 /\ last' = Call("check", identifier, limit, cost, "redis",
                                 "ConnectionError", NoInfo, NoExc)
                 /\ UNCHANGED <<zsets, counters, buckets, memory_store, history>>
       ELSE LET r == check_memory_rate_limit(memory_store, identifier, limit,
                                             cost, now)
            IN  /\ memory_store' = r.memory_store
                /\ last' = Outcome(identifier, limit, cost, "memory", r.info)
                /\ history' = [history EXCEPT ![identifier] =
                                   Record(@, now, cost, r.info)]
                /\ UNCHANGED <<zsets, counters, buckets>>
    /\ calls' = calls + 1
    /\ UNCHANGED <<now, redis_lib, enable_burst, presets, tasks>>

\* get_rate_limit_info(identifier, limit).  The status it returns is
\* get_rate_limit_info_redis(...).info or get_rate_limit_info_memory(...);
\* the record of the call keeps who was asked about and how the call ended.
get_rate_limit_info(identifier, arg, store_up) ==
    LET limit == LimitOf(arg) IN
    /\ IF redis_lib
       THEN IF store_up
            THEN /\ zsets' = get_rate_limit_info_redis(zsets, identifier,
                                                       limit, now).zsets
                 /\ last' = Call("peek", identifier, NoLimit, 0, "redis",
                                 "none", NoInfo, NoExc)
            ELSE /\ last' = Call("peek", identifier, NoLimit, 0, "redis",
                                 "ConnectionError", NoInfo, NoExc)
                 /\ UNCHANGED zsets
       ELSE /\ last' = Call("peek", identifier, NoLimit, 0, "memory", "none",
                            NoInfo, NoExc)
            /\ UNCHANGED zsets
    /\ UNCHANGED <<now, redis_lib, enable_burst, counters, buckets,
                   memory_store, history, calls, presets, tasks>>

\* The Redis state after KEYS rate_limit:*:{identifier}* and DELETE.
ResetRedis(zs, cs, bs, identifier) ==
    [zsets |-> Del(zs, {k \in DOMAIN zs : KeyMatches(identifier, k)}),
     counters |-> Del(cs, {k \in DOMAIN cs : KeyMatches(identifier, k[1])}),
     buckets |-> Del(bs, {k \in DOMAIN bs : KeyMatches(identifier, k)})]

\* The memory store after del self._memory_store[identifier].
ResetMemory(ms, identifier) == Del(ms, {identifier})

\* reset_rate_limit(identifier).
reset_rate_limit(identifier, store_up) ==
    /\ IF redis_lib
       THEN IF store_up
            THEN LET r == ResetRedis(zsets, counters, buckets, identifier)
                 IN  /\ zsets' = r.zsets
                     /\ counters' = r.counters
                     /\ buckets' = r.buckets
                     /\ last' = Call("reset", identifier, NoLimit, 0, "redis",
                                     "none", NoInfo, NoExc)
                     /\ history' = [history EXCEPT ![identifier] = EmptyMap]
                     /\ UNCHANGED memory_store
            ELSE /\ last' = Call("reset", identifier, NoLimit, 0, "redis",
                                 "ConnectionError", NoInfo, NoExc)
                 /\ UNCHANGED <<zsets, counters, buckets, memory_store, history>>
       ELSE /\ memory_store' = ResetMemory(memory_store, identifier)
            /\ last' = Call("reset", identifier, NoLimit, 0, "memory", "none",
                            NoInfo, NoExc)
            /\ history' = [history EXCEPT ![identifier] = EmptyMap]
            /\ UNCHANGED <<zsets, counters, buckets>>
    /\ UNCHANGED <<now, redis_lib, enable_burst, calls, presets, tasks>>

\* The clock advances by d seconds; the server drops the keys that expired.
Tick(d) ==
    /\ now' = now + d
    /\ zsets' = Alive(zsets, now')
    /\ counters' = Alive(counters, now')
    /\ buckets' = Alive(buckets, now')
    /\ last' = Idle
    /\ UNCHANGED <<redis_lib, enable_burst, memory_store, history, calls,
                   presets, tasks>>

\* The server is reachable or not at each call on the Redis path.
Reach == IF redis_lib THEN BOOLEAN ELSE {TRUE}

Next ==
    \/ \E limit \in presets, cost \in Costs, store_up \in Reach :
          /\ calls < MaxCalls
          /\ check_rate_limit(user_1, limit, cost, store_up)
          /\ UNCHANGED response
    \/ \E limit \in PeekLimits, store_up \in Reach :
          /\ get_rate_limit_info(user_1, limit, store_up)
          /\ UNCHANGED response
    \/ \E store_up \in Reach :
          /\ reset_rate_limit(user_1, store_up)
          /\ UNCHANGED response
    \/ /\ now < Epoch + Horizon
       /\ Tick(1)
       /\ UNCHANGED response

Spec == Init /\ [][Next]_vars


\* ------------------------------------------------------ configurations
\* The values given to requests and to window when a limit is built.
ConfigValues == {0, 1}

\* RateLimit(requests, window, strategy): the dataclass stores what it is
\* given; the callers of this process then pass that limit.
construct(requests, window, strategy) ==
    /\ presets' = {RateLimit(requests, window, strategy)}
    /\ last' = Call("construct", <<>>, RateLimit(requests, window, strategy),
                    0, "none", "none", NoInfo, NoExc)
    /\ UNCHANGED <<now, redis_lib, enable_burst, zsets, counters, buckets,
                   memory_store, history, calls, tasks>>

\* A default-constructed RateLimiter; no limit has been built yet.
InitConfig ==
    /\ now = Epoch
    /\ redis_lib \in BOOLEAN
    /\ enable_burst = TRUE
    /\ presets = {}
    /\ zsets = EmptyMap
    /\ counters = EmptyMap
    /\ buckets = EmptyMap
    /\ memory_store = EmptyMap
    /\ last = Idle
    /\ history = [i \in Ids |-> EmptyMap]
    /\ calls = 0
    /\ tasks = [c \in Callers |-> NoTask]
    /\ response = NoResponse

NextConfig ==
    \/ \E requests \in ConfigValues, window \in ConfigValues,
          strategy \in RateLimitStrategy :
          /\ presets = {}
          /\ construct(requests, window, strategy)
          /\ UNCHANGED response
    \/ \E limit \in presets, cost \in Costs, store_up \in Reach :
          /\ calls < MaxCalls
          /\ check_rate_limit(user_1, limit, cost, store_up)
          /\ UNCHANGED response
    \/ /\ now < Epoch + Horizon
       /\ Tick(1)
       /\ UNCHANGED response

Config == InitConfig /\ [][NextConfig]_vars

\* ------------------------------------------------------ concurrent checks
\* Mutant: the commands see the data as it was when the coroutine was
\* suspended, and the result is written back when it resumes.
Pipeline_read_at_entry(seen, live) == seen

\* pipeline(transaction=True) ... execute() and eval(lua_script): the queued
\* commands, or the script, run on the server as one operation, on the data
\* as it is when they run.
Pipeline(seen, live) == live

\* Mutant: the record is read before a suspension and written after it.
Synchronous_read_at_call(seen, live) == seen

\* _check_memory_rate_limit from the clock reading to the return: no await
\* that suspends lies between the read and the write of the record.
Synchronous(seen, live) == live

\* More identifiers than the cleanup threshold, all idle for over an hour.
Fillers ==
    [i \in {<<9, n>> : n \in 1..(CleanupThreshold + 1)} |->
        [requests |-> <<>>, last_access |-> Epoch - RetentionSeconds - 1]]

\* check_rate_limit is called and suspended at await self._get_redis().
call(c, identifier, arg, cost) ==
    /\ tasks[c].pc = "idle"
    /\ tasks' = [tasks EXCEPT ![c] =
                    Task("get_redis", identifier, LimitOf(arg), cost, 0,
                         IF redis_lib THEN NoStores
                         ELSE Stores(zsets, counters, buckets, memory_store),
                         NoInfo)]
    /\ UNCHANGED <<now, redis_lib, enable_burst, zsets, counters, buckets,
                   memory_store, last, history, calls, presets>>

\* Redis path: _check_redis_rate_limit reads the clock, the strategy queues
\* its commands and is suspended at execute() / eval().
enter(c) ==
    /\ redis_lib
    /\ tasks[c].pc = "get_redis"
    /\ tasks' = [tasks EXCEPT ![c] =
                    [@ EXCEPT !.pc = "pipeline", !.current_time = now,
                              !.seen = Stores(zsets, counters, buckets,
                                              memory_store)]]
    /\ UNCHANGED <<now, redis_lib, enable_burst, zsets, counters, buckets,
                   memory_store, last, history, calls, presets>>

\* Redis path: the transaction or the script runs, the decision is computed
\* from its reply and returned.
execute(c) ==
    /\ tasks[c].pc = "pipeline"
    /\ LET s == Pipeline(tasks[c].seen,
                         Stores(zsets, counters, buckets, memory_store))
           r == check_redis_rate_limit(s.zsets, s.counters, s.buckets,
                                       enable_burst, tasks[c].identifier,
                                       tasks[c].limit, tasks[c].cost,
                                       tasks[c].current_time)
       IN  /\ zsets' = r.zsets
           /\ counters' = r.counters
           /\ buckets' = r.buckets
           /\ tasks' = [tasks EXCEPT ![c] =
                           [@ EXCEPT !.pc = "done", !.seen = NoStores,
                                     !.info = r.info]]
    /\ UNCHANGED <<now, redis_lib, enable_burst, memory_store, last, history,
                   calls, presets>>

\* Fallback path: _check_memory_rate_limit runs from the clock reading to
\* the return (the awaited _cleanup_memory_store holds no await).
run(c) ==
    /\ ~redis_lib
    /\ tasks[c].pc = "get_redis"
    /\ LET s == Synchronous(tasks[c].seen,
                            Stores(zsets, counters, buckets, memory_store))
           r == check_memory_rate_limit(s.memory_store, tasks[c].identifier,
                                        tasks[c].limit, tasks[c].cost, now)
       IN  /\ memory_store' = r.memory_store
           /\ tasks' = [tasks EXCEPT ![c] =
                           [@ EXCEPT !.pc = "done", !.current_time = now,
                                     !.seen = NoStores, !.info = r.info]]
    /\ UNCHANGED <<now, redis_lib, enable_burst, zsets, counters, buckets,
                   last, history, calls, presets>>

\* A default-constructed RateLimiter; on the fallback path the map already
\* holds the idle identifiers.
InitRace ==
    /\ now = Epoch
    /\ redis_lib \in BOOLEAN
    /\ enable_burst = TRUE
    /\ presets \in Presets
    /\ zsets = EmptyMap
    /\ counters = EmptyMap
    /\ buckets = EmptyMap
    /\ memory_store = IF redis_lib THEN EmptyMap ELSE Fillers
    /\ last = Idle
    /\ history = [i \in Ids |-> EmptyMap]
    /\ calls = 0
    /\ tasks = [c \in Callers |-> NoTask]
    /\ response = NoResponse

NextRace ==
    \/ \E c \in Callers, limit \in presets, cost \in Costs :
          /\ call(c, user_1, limit, cost)
          /\ UNCHANGED response
    \/ \E c \in Callers : enter(c) /\ UNCHANGED response
    \/ \E c \in Callers : execute(c) /\ UNCHANGED response
    \/ \E c \in Callers : run(c) /\ UNCHANGED response
    \/ /\ now < Epoch + Horizon
       /\ Tick(1)
       /\ UNCHANGED response

Race == InitRace /\ [][NextRace]_vars

\* ---------------------------------------------------------------- scenarios
\* The limits of the two worked scenarios, at their real size.
SlidingScenario == RateLimit(5, 60, SLIDING_WINDOW)
BucketScenario == RateLimit(10, 10, TOKEN_BUCKET)

\* The clock readings of the scenarios: t = 0, 1, 60 and 61.
ScenarioTimes == {Epoch, Epoch + 1, Epoch + 60, Epoch + 61}

\* A default-constructed RateLimiter (enable_burst = True) with a Redis
\* client, used with the limit of one scenario.
InitScenario ==
    /\ now = Epoch
    /\ redis_lib = TRUE
    /\ enable_burst = TRUE
    /\ presets \in {{SlidingScenario}, {BucketScenario}}
    /\ zsets = EmptyMap
    /\ counters = EmptyMap
    /\ buckets = EmptyMap
    /\ memory_store = EmptyMap
    /\ last = Idle
    /\ history = [i \in Ids |-> EmptyMap]
    /\ calls = 0
    /\ tasks = [c \in Callers |-> NoTask]
    /\ response = NoResponse

\* Checks of cost 1 for one identifier, the server reachable.
NextScenario ==
    \/ \E limit \in presets :
          /\ calls < ScenarioCalls
          /\ check_rate_limit(user_1, limit, 1, TRUE)
          /\ UNCHANGED response
    \/ \E t \in ScenarioTimes :
          /\ t > now
          /\ Tick(t - now)
          /\ UNCHANGED response

Scenario == InitScenario /\ [][NextScenario]_vars

\* --------------------------------------------------------------- middleware
\* A URL path is a sequence of pieces.  A piece is "/" and a name, or "x",
\* a run of characters without "/" that lengthens the name before it
\* (<<"/posts", "x">> is /postsx).  No piece is a prefix of another, and "/"
\* occurs only at the head of a piece, so the string operations of the code
\* are exactly the operations below on sequences of pieces.
Pieces == {"/auth", "/login", "/register", "/posts", "/comments", "/api",
           "/1", "/health", "x"}

\* The longest path, in pieces.
MaxPieces == 3

RECURSIVE Seqs(_, _)
Seqs(S, n) ==
    IF n = 0 THEN {<<>>}
    ELSE Seqs(S, n - 1) \cup
         {Append(q, e) : q \in {r \in Seqs(S, n - 1) : Len(r) = n - 1}, e \in S}

\* request.url.path: it begins with "/".
Paths == {q \in Seqs(Pieces, MaxPieces) : q # <<>> /\ q[1] # "x"}

Methods == {"GET", "POST", "OPTIONS"}

\* path.startswith(pattern)
StartsWith(path, pattern) == IsPrefix(pattern, path)

\* "/posts/" in path: the piece /posts followed by a piece that begins
\* with "/".
ContainsPostsSlash(path) ==
    \E i \in 1..(Len(path) - 1) : path[i] = "/posts" /\ path[i + 1] # "x"

\* "/posts" in path
ContainsPosts(path) == \E i \in 1..Len(path) : path[i] = "/posts"

\* path.endswith("/comments")
EndsWithComments(path) == path # <<>> /\ path[Len(path)] = "/comments"

\* RateLimitMiddleware.RATE_LIMITS, in the order of the dict; RateLimit(n, w)
\* has the default strategy, the sliding window.
RATE_LIMITS ==
    << [pattern |-> <<"/auth", "/login">>,
        limit |-> RateLimit(5, 300, SLIDING_WINDOW)],
       [pattern |-> <<"/auth", "/register">>,
        limit |-> RateLimit(3, 3600, SLIDING_WINDOW)],
       [pattern |-> <<"/auth", "/password-reset">>,
        limit |-> RateLimit(3, 3600, SLIDING_WINDOW)],
       [pattern |-> <<"/posts">>,
        limit |-> RateLimit(10, 3600, SLIDING_WINDOW)],
       [pattern |-> <<"/comments">>,
        limit |-> RateLimit(30, 3600, SLIDING_WINDOW)],
       [pattern |-> <<"default">>,
        limit |-> RateLimit(100, 60, SLIDING_WINDOW)] >>

\* self.RATE_LIMITS[key]
LimitFor(key) ==
    RATE_LIMITS[CHOOSE i \in 1..Len(RATE_LIMITS) :
                    RATE_LIMITS[i].pattern = key].limit

\* RateLimitMiddleware.EXCLUDED_PATHS
EXCLUDED_PATHS ==
    {<<"/health">>, <<"/metrics">>, <<"/docs">>, <<"/redoc">>,
     <<"/openapi.json">>}

\* RateLimitMiddleware.get_rate_limit_for_path: the first pattern of
\* RATE_LIMITS the path starts with, then the rules for POST, then the
\* default.
get_rate_limit_for_path(path, method) ==
    LET hits == {i \in 1..Len(RATE_LIMITS) :
                    /\ RATE_LIMITS[i].pattern # <<"default">>
                    /\ StartsWith(path, RATE_LIMITS[i].pattern)}
    IN  IF hits # {}
        THEN RATE_LIMITS[CHOOSE i \in hits : \A j \in hits : i <= j].limit
        ELSE IF method = "POST" /\ ContainsPostsSlash(path)
                                /\ EndsWithComments(path)
        THEN LimitFor(<<"/comments">>)
        ELSE IF method = "POST" /\ ContainsPosts(path)
        THEN LimitFor(<<"/posts">>)
        ELSE LimitFor(<<"default">>)

\* any(request.url.path.startswith(path) for path in self.EXCLUDED_PATHS)
Excluded(path) == \E e \in EXCLUDED_PATHS : StartsWith(path, e)

\* str(n): the decimal text of an integer.
Str(n) == <<"str", n>>

\* The headers dispatch adds to the response of an admitted request.
RateLimitHeaders(rate_limit, rate_info) ==
    [h \in {"X-RateLimit-Limit", "X-RateLimit-Remaining",
            "X-RateLimit-Reset", "X-RateLimit-Window"} |->
        CASE h = "X-RateLimit-Limit" -> Str(rate_limit.requests)
          [] h = "X-RateLimit-Remaining" -> Str(rate_info.remaining)
          [] h = "X-RateLimit-Reset" -> Str(rate_info.reset_time)
          [] h = "X-RateLimit-Window" -> Str(rate_limit.window)]

\* The status codes of the downstream handler.
DownstreamStatus == {200, 404}

\* The requests dispatched while the limiter runs: an excluded path, a
\* path with the registration limit and a path with the default limit.
RequestPaths ==
    {<<"/health">>, <<"/auth", "/register">>, <<"/api", "/1">>}

\* RateLimitMiddleware.dispatch for a request of the given path and method,
\* made by the client with the given identifier; status is what the
\* downstream handler answers if it is called.  The checks go to the
\* module's rate_limiter with cost 1.  In the except branch e.limit,
\* e.window and e.retry_after are read from an exception that has no such
\* attributes: AttributeError leaves dispatch.  Whatever else the check
\* raises leaves dispatch as well.
dispatch(path, method, identifier, status, store_up) ==
    IF Excluded(path) \/ method = "OPTIONS"
    THEN /\ response' = Response(path, method, NoLimit, 1, status, EmptyMap,
                                 "none")
         /\ UNCHANGED <<now, redis_lib, enable_burst, zsets, counters,
                        buckets, memory_store, last, history, calls, presets,
                        tasks>>
    ELSE LET rate_limit == get_rate_limit_for_path(path, method) IN
         /\ check_rate_limit(identifier, rate_limit, 1, store_up)
         /\ response' =
               CASE last'.raised = "none" ->
                       Response(path, method, rate_limit, 1, status,
                                RateLimitHeaders(rate_limit, last'.info),
                                "none")
                 [] last'.raised = "RateLimitExceededException" ->
                       Response(path, method, rate_limit, 0, 0, EmptyMap,
                                "AttributeError")
                 [] OTHER ->
                       Response(path, method, rate_limit, 0, 0, EmptyMap,
                                last'.raised)

\* The number of requests dispatched, and the last clock reading.
MaxRequestsSent == 5
LastSecond == 4

\* The module's rate_limiter = RateLimiter(), before any request.
InitHttp ==
    /\ now = Epoch
    /\ redis_lib \in BOOLEAN
    /\ enable_burst = TRUE
    /\ presets = {}
    /\ zsets = EmptyMap
    /\ counters = EmptyMap
    /\ buckets = EmptyMap
    /\ memory_store = EmptyMap
    /\ last = Idle
    /\ history = [i \in Ids |-> EmptyMap]
    /\ calls = 0
    /\ tasks = [c \in Callers |-> NoTask]
    /\ response = NoResponse

NextHttp ==
    \/ \E path \in RequestPaths, method \in {"GET", "OPTIONS"},
          status \in DownstreamStatus, store_up \in Reach :
          /\ calls < MaxRequestsSent
          /\ dispatch(path, method, user_1, status, store_up)
    \/ /\ now < Epoch + LastSecond
       /\ Tick(1)
       /\ UNCHANGED response

Http == InitHttp /\ [][NextHttp]_vars

\* The limit looked up for one request, and nothing else.
route(path, method) ==
    /\ response' = Response(path, method,
                            get_rate_limit_for_path(path, method), 0, 0,
                            EmptyMap, "none")
    /\ UNCHANGED <<now, redis_lib, enable_burst, zsets, counters, buckets,
                   memory_store, last, history, calls, presets, tasks>>

NextRoutes ==
    \E path \in Paths, method \in Methods :
        /\ response = NoResponse
        /\ route(path, method)

Routes == InitHttp /\ [][NextRoutes]_vars

\* ------------------------------------------------- store and fallback twins
\* Two limiters with burst disabled are given the same check calls at the
\* same clock readings: caller "a" uses a limiter with a Redis client and a
\* sliding-window limit, caller "b" a limiter without one (the fallback).
\* tasks keeps the decision each of them returned.
MaxTwinCalls == 3

both(identifier, arg, cost) ==
    LET limit == LimitOf(arg)
        a == sliding_window_redis(zsets, enable_burst, identifier, limit,
                                  cost, now)
        b == check_memory_rate_limit(memory_store, identifier, limit, cost,
                                     now)
    IN  /\ zsets' = a.zsets
        /\ memory_store' = b.memory_store
        /\ tasks' = [c \in Callers |->
                        Task("done", identifier, limit, cost, now, NoStores,
                             IF c = "a" THEN a.info ELSE b.info)]
        /\ calls' = calls + 1
        /\ UNCHANGED <<now, redis_lib, enable_burst, counters, buckets, last,
                       history, presets, response>>

InitTwin ==
    /\ now = Epoch
    /\ redis_lib = TRUE
    /\ enable_burst = FALSE
    /\ presets \in {table \in Presets : UsesSliding(table)}
    /\ zsets = EmptyMap
    /\ counters = EmptyMap
    /\ buckets = EmptyMap
    /\ memory_store = EmptyMap
    /\ last = Idle
    /\ history = [i \in Ids |-> EmptyMap]
    /\ calls = 0
    /\ tasks = [c \in Callers |-> NoTask]
    /\ response = NoResponse

NextTwin ==
    \/ \E identifier \in Ids, limit \in presets, cost \in Costs :
          /\ calls < MaxTwinCalls
          /\ both(identifier, limit, cost)
    \/ /\ now < Epoch + Horizon
       /\ Tick(1)
       /\ UNCHANGED response

Twin == InitTwin /\ [][NextTwin]_vars

\* ------------------------------------------------------- two identifiers
\* The limiter of Init used for user_1 and for user_10, whose name begins
\* with that of user_1.
MaxSharedCalls == 2

NextShared ==
    \/ \E identifier \in Ids, limit \in presets, cost \in Costs,
          store_up \in Reach :
          /\ calls < MaxSharedCalls
          /\ check_rate_limit(identifier, limit, cost, store_up)
          /\ UNCHANGED response
    \/ \E identifier \in Ids, store_up \in Reach :
          /\ reset_rate_limit(identifier, store_up)
          /\ UNCHANGED response
    \/ /\ now < Epoch + Horizon
       /\ Tick(1)
       /\ UNCHANGED response

Shared == Init /\ [][NextShared]_vars

\* ------------------------------------------------------ fallback cleanup
\* A limiter without a Redis client whose map already holds about
\* CleanupThreshold identifiers: <<9, 1>> .. <<9, n>>, the first of an age
\* of its own and the others of one common age.
Idler(n) == <<9, n>>

\* last_access of an idle identifier at the start: older than the
\* retention, exactly at it, or just used.
Ages == {Epoch - RetentionSeconds - 1, Epoch - RetentionSeconds, Epoch}

Idlers(n, first, others) ==
    [i \in {Idler(k) : k \in 1..n} |->
        [requests |-> <<>>,
         last_access |-> IF i = Idler(1) THEN first ELSE others]]

MaxCleanupCalls == 2

\* The seconds the clock advances while the map is this large.
CleanupSeconds == 1

InitCleanup ==
    /\ now = Epoch
    /\ redis_lib = FALSE
    /\ enable_burst = TRUE
    /\ presets = {NoLimit}
    /\ zsets = EmptyMap
    /\ counters = EmptyMap
    /\ buckets = EmptyMap
    /\ memory_store \in
          {Idlers(n, first, others) :
              n \in (CleanupThreshold - 1)..(CleanupThreshold + 1),
              first \in Ages, others \in Ages}
    /\ last = Idle
    /\ history = [i \in Ids |-> EmptyMap]
    /\ calls = 0
    /\ tasks = [c \in Callers |-> NoTask]
    /\ response = NoResponse

\* Checks of cost 1 by two clients, and the clock.
NextCleanup ==
    \/ \E identifier \in Ids, limit \in presets :
          /\ calls < MaxCleanupCalls
          /\ check_rate_limit(identifier, limit, 1, TRUE)
          /\ UNCHANGED response
    \/ /\ now < Epoch + CleanupSeconds
       /\ Tick(1)
       /\ UNCHANGED response

Cleanup == InitCleanup /\ [][NextCleanup]_vars

\* ------------------------------------------------------------------ claims
\* A check call for which a strategy computed a decision.
Decided(c) ==
    c.op = "check" /\ c.raised \in {"none", "RateLimitExceededException"}

\* Two calls about the same identifier, limit and backend.
SameSubject(a, b) ==
    a.identifier = b.identifier /\ a.limit = b.limit /\ a.path = b.path

\* C1: check_rate_limit raises RateLimitExceededException, carrying
\* retry_after, limit.requests and limit.window, exactly when the decision
\* of the strategy has exceeded = TRUE; otherwise it returns the decision
\* and raises nothing.
C1_RaisesIffExceeded ==
    Decided(last) =>
        IF last.info.exceeded
        THEN /\ last.raised = "RateLimitExceededException"
             /\ last.exc.status_code = 429
             /\ DOMAIN last.exc.details =
                    {"limit", "window_seconds", "retry_after_seconds"}
             /\ last.exc.details["retry_after_seconds"] = last.info.retry_after
             /\ last.exc.details["limit"] = last.limit.requests
             /\ last.exc.details["window_seconds"] = last.limit.window
             /\ DOMAIN last.exc.headers = {"Retry-After"}
             /\ last.exc.headers["Retry-After"] = last.info.retry_after
        ELSE /\ last.raised = "none"
             /\ last.exc = NoExc

C1_Witness ==
    /\ Decided(last)
    /\ last.info.exceeded
    /\ last.raised = "RateLimitExceededException"

\* C2: a store failure during a check is absorbed: the only exception a
\* caller of check_rate_limit observes is the quota-exceeded one.
C2_StoreFailureAbsorbed ==
    last.op = "check" =>
        last.raised \in {"none", "RateLimitExceededException"}

\* C3 as stated: once a check reports exceeded, a check with cost 0 made
\* right after it (same identifier, limit and backend, no time passing, no
\* reset) reports exceeded too, for every strategy and the fallback.
C3_DenialStaysAtCostZero ==
    [][ ( /\ Decided(last) /\ last.info.exceeded
          /\ Decided(last') /\ SameSubject(last, last')
          /\ last'.cost = 0 )
        => last'.info.exceeded ]_vars

\* C3 amended: once a check of cost c reports exceeded, a check of cost at
\* least c made right after it reports exceeded too, for every strategy
\* and the fallback; with a smaller cost (cost 0 included) this holds for
\* the fixed window on the Redis path.
C3_DenialStays ==
    [][ ( /\ Decided(last) /\ last.info.exceeded
          /\ Decided(last') /\ SameSubject(last, last')
          /\ \/ last'.cost >= last.cost
             \/ last.path = "redis" /\ last.limit.strategy = FIXED_WINDOW )
        => last'.info.exceeded ]_vars

\* Two or more checks were decided at this clock reading, none admitted,
\* and the last of them is denied.
C3_Witness ==
    /\ Decided(last)
    /\ last.info.exceeded
    /\ ChecksAt(history[last.identifier], now).n >= 2
    /\ ChecksAt(history[last.identifier], now).units = 0

\* The clock readings before now at which checks were decided for id.
EarlierTimes(id) == {t \in DOMAIN history[id] : t < now}
MostRecent(id) ==
    CHOOSE t \in EarlierTimes(id) : \A u \in EarlierTimes(id) : u <= t

\* The case of C4: a cost-1 check of a sliding or fixed window on the Redis
\* path, the first one at this clock reading, made more than limit.window
\* seconds after the latest earlier checks, which consumed limit.requests
\* units or more.
C4_Case ==
    /\ Decided(last)
    /\ last.path = "redis"
    /\ last.limit.strategy \in {SLIDING_WINDOW, FIXED_WINDOW}
    /\ last.cost = 1
    /\ ChecksAt(history[last.identifier], now).n = 1
    /\ EarlierTimes(last.identifier) # {}
    /\ LET t0 == MostRecent(last.identifier)
       IN  /\ history[last.identifier][t0].units >= last.limit.requests
           /\ now > t0 + last.limit.window

\* C4 as stated: window expiry recovery with remaining >= 1 for every
\* requests = N >= 1.
C4_RecoveryLeavesOne ==
    C4_Case => ~last.info.exceeded /\ last.info.remaining >= 1

\* C4 amended: after the window has passed the check is admitted with
\* remaining = N - 1, which is >= 1 only for N >= 2.
C4_Recovery ==
    C4_Case => /\ ~last.info.exceeded
               /\ last.info.remaining = last.limit.requests - 1

C4_Witness ==
    /\ C4_Case
    /\ last.limit.requests >= 2
    /\ last.info.remaining >= 1

\* C5: the stored token count of an identifier never exceeds the capacity
\* limit.requests, whatever the costs and the idle time between checks.
C5_TokensWithinCapacity ==
    /\ \A id \in DOMAIN buckets :
          \E arg \in presets :
             /\ LimitOf(arg).strategy = TOKEN_BUCKET
             /\ RatLeq(buckets[id].tokens, RatInt(LimitOf(arg).requests))
    /\ ( Decided(last) /\ last.path = "redis"
         /\ last.limit.strategy = TOKEN_BUCKET )
       => RatLeq(buckets[last.identifier].tokens, RatInt(last.limit.requests))

\* A check after idle time whose refill was cut at the capacity.
C5_Witness ==
    /\ Decided(last)
    /\ last.path = "redis"
    /\ last.limit.strategy = TOKEN_BUCKET
    /\ last.cost = 1
    /\ ChecksAt(history[last.identifier], now).n = 1
    /\ EarlierTimes(last.identifier) # {}
    /\ buckets[last.identifier].tokens = RatInt(last.limit.requests - 1)

\* The decision check_rate_limit computes for (identifier, limit, cost) at
\* time t from the given stores.
DecisionFrom(zs, cs, bs, ms, identifier, limit, cost, t) ==
    IF redis_lib
    THEN check_redis_rate_limit(zs, cs, bs, enable_burst, identifier, limit,
                                cost, t).info
    ELSE check_memory_rate_limit(ms, identifier, limit, cost, t).info

\* The sliding-window keys after get_rate_limit_info(identifier, limit).
AfterPeek(identifier, limit) ==
    IF redis_lib
    THEN get_rate_limit_info_redis(zsets, identifier, limit, now).zsets
    ELSE zsets

\* C6: a peek, with any limit configuration, between two checks changes
\* neither the exceeded outcome nor the remaining value of the second
\* check, on the store path and on the fallback path.
C6_PeekChangesNothing ==
    \A id \in Ids, arg \in presets, peeked \in PeekLimits, cost \in Costs,
       t \in now..(Epoch + Horizon) :
        LET with == DecisionFrom(AfterPeek(id, LimitOf(peeked)), counters,
                                 buckets, memory_store, id, LimitOf(arg),
                                 cost, t)
            without == DecisionFrom(zsets, counters, buckets, memory_store,
                                    id, LimitOf(arg), cost, t)
        IN  /\ with.exceeded = without.exceeded
            /\ with.remaining = without.remaining

RECURSIVE SumUnits(_, _)
SumUnits(h, ts) ==
    IF ts = {} THEN 0
    ELSE LET t == CHOOSE x \in ts : TRUE
         IN  h[t].units + SumUnits(h, ts \ {t})

\* The units admitted for id at clock readings >= from.
AdmittedSince(id, from) ==
    SumUnits(history[id], {t \in DOMAIN history[id] : t >= from})

\* The units admitted within the window of the check in `last`, before it.
AdmittedBefore ==
    AdmittedSince(last.identifier, now - last.limit.window)
    - (IF last.info.exceeded THEN 0 ELSE last.cost)

\* Every limit argument of the callers is the limit of the check in `last`:
\* the identifier has been checked under this one configuration.
OneLimit == \A arg \in presets : LimitOf(arg) = last.limit

KthAtEpoch(k) ==
    /\ Decided(last)
    /\ DOMAIN history[last.identifier] = {Epoch}
    /\ history[last.identifier][Epoch].n = k

\* The check in `last` is the first one at clock reading t, after k checks
\* made at Epoch and none in between.
FirstAfter(k, t) ==
    /\ Decided(last)
    /\ DOMAIN history[last.identifier] = {Epoch, t}
    /\ history[last.identifier][Epoch].n = k
    /\ history[last.identifier][t].n = 1

\* C8: limit {5, 60 s, sliding_window}, default-constructed limiter, store
\* path: five checks at t = 0 are admitted with remaining 4, 3, 2, 1, 0; a
\* sixth at t = 0 is denied with retry_after = 60; a seventh at t = 61 is
\* admitted.
C8_SlidingScenario ==
    (last.limit = SlidingScenario) =>
        /\ \A k \in 1..5 :
              KthAtEpoch(k) => /\ ~last.info.exceeded
                               /\ last.info.remaining = 5 - k
        /\ KthAtEpoch(6) => /\ last.info.exceeded
                            /\ last.info.retry_after = 60
        /\ FirstAfter(6, Epoch + 61) => ~last.info.exceeded

\* C9: limit {10, 10 s, token_bucket}, full bucket: ten checks of cost 1 at
\* t = 0 succeed, the tenth with remaining = 0; an eleventh at t = 0 is
\* denied with retry_after = 1; a check at t = 1 succeeds.
C9_BucketScenario ==
    (last.limit = BucketScenario) =>
        /\ \A k \in 1..10 : KthAtEpoch(k) => ~last.info.exceeded
        /\ KthAtEpoch(10) => last.info.remaining = 0
        /\ KthAtEpoch(11) => /\ last.info.exceeded
                             /\ last.info.retry_after = 1
        /\ FirstAfter(11, Epoch + 1) => ~last.info.exceeded

\* What the code does in the token-bucket scenario: the same, but for the
\* retry_after of the eleventh check, int(1 / 1.0) + 1 = 2.
BucketScenarioAsCoded ==
    (last.limit = BucketScenario) =>
        /\ \A k \in 1..10 : KthAtEpoch(k) => ~last.info.exceeded
        /\ KthAtEpoch(10) => last.info.remaining = 0
        /\ KthAtEpoch(11) => /\ last.info.exceeded
                             /\ last.info.retry_after = 2
        /\ FirstAfter(11, Epoch + 1) => ~last.info.exceeded

\* What the code does in the sliding-window scenario: every check at t = 0
\* after the first finds the one member "0:1" in the set.
SlidingScenarioAsCoded ==
    (last.limit = SlidingScenario) =>
        /\ KthAtEpoch(1) => last.info.remaining = 4
        /\ \A k \in 2..ScenarioCalls :
              KthAtEpoch(k) => /\ ~last.info.exceeded
                               /\ last.info.remaining = 3

\* The decision of the check in c for an identifier never seen.
Fresh(c) ==
    DecisionFrom(EmptyMap, EmptyMap, EmptyMap, EmptyMap, c.identifier,
                 c.limit, c.cost, now)

\* C10: reset_rate_limit returns True after any calls, and the check that
\* follows it gets the decision of a never-seen identifier.
C10_ResetMakesFresh ==
    [][ /\ last'.op = "reset" => last'.raised = "none"
        /\ ( /\ last.op = "reset"
             /\ Decided(last')
             /\ last'.identifier = last.identifier )
           => last'.info = Fresh(last') ]_vars

\* The part of C10 that the code keeps: after a reset that returned, the
\* next check is decided as for a never-seen identifier.
ResetThenFresh ==
    [][ ( /\ last.op = "reset" /\ last.raised = "none"
          /\ Decided(last')
          /\ last'.identifier = last.identifier )
        => last'.info = Fresh(last') ]_vars

\* A step of check_rate_limit (the only action that counts a call); the
\* call and its outcome are in last'.
CheckStep == calls' = calls + 1

\* A check_rate_limit step decided by the given strategy on the Redis path.
RedisStep(strategy) ==
    /\ CheckStep
    /\ Decided(last')
    /\ last'.path = "redis"
    /\ last'.limit.strategy = strategy

\* The members of the sliding-window key of an identifier that a check made
\* at time t with this limit counts: those scored after t - limit.window.
UsageIn(zs, identifier, limit, t) ==
    Cardinality({m \in ZMembers(zs, identifier) : Score(m) > t - limit.window})

\* C11: on the Redis sliding window a denied check still adds its entry to
\* the sorted set, so each denied probe increases the usage that the next
\* check inside the window counts.
C11_DeniedProbeCounts ==
    [][ ( RedisStep(SLIDING_WINDOW) /\ last'.info.exceeded )
        => UsageIn(zsets', last'.identifier, last'.limit, now)
             > UsageIn(zsets, last'.identifier, last'.limit, now) ]_vars

\* The part of C11 that the code keeps: after any decided check, denied or
\* admitted, the member "{current_time}:{cost}" is in the sorted set.
DeniedEntryIsStored ==
    ( Decided(last) /\ last.path = "redis"
      /\ last.limit.strategy = SLIDING_WINDOW )
    => Member(now, last.cost) \in ZMembers(zsets, last.identifier)

\* C12: fixed window on the Redis path: each check adds its cost to the
\* counter of (identifier, bucket) with bucket = floor(now / window) *
\* window, denied or not; it is exceeded iff the counter after the
\* increment is greater than limit.requests, without burst allowance;
\* reset_time = bucket + window; retry_after = reset_time - now when
\* exceeded.
C12_FixedWindow ==
    [][ RedisStep(FIXED_WINDOW) =>
          LET limit == last'.limit
              bucket == now - (now % limit.window)
              key == <<last'.identifier, bucket>>
              before == IF key \in DOMAIN counters THEN counters[key].val ELSE 0
          IN  /\ key \in DOMAIN counters'
              /\ counters'[key].val = before + last'.cost
              /\ last'.info.exceeded <=> (counters'[key].val > limit.requests)
              /\ last'.info.reset_time = bucket + limit.window
              /\ last'.info.exceeded =>
                    last'.info.retry_after = bucket + limit.window - now
              /\ \A k \in DOMAIN counters \ {key} :
                    k \in DOMAIN counters' /\ counters'[k] = counters[k] ]_vars

\* A denied fixed-window check, the second or later of its second, that
\* left the counter above the limit although burst is enabled.
C12_Witness ==
    /\ Decided(last)
    /\ last.path = "redis"
    /\ last.limit.strategy = FIXED_WINDOW
    /\ last.info.exceeded
    /\ enable_burst
    /\ ChecksAt(history[last.identifier], now).n >= 2
    /\ LET key == <<last.identifier, now - (now % last.limit.window)>>
       IN  /\ key \in DOMAIN counters
           /\ counters[key].val > last.limit.requests
           /\ counters[key].val > AdmittedSince(last.identifier, key[2])

\* The token-bucket rule for a check of (identifier, limit, cost) whose
\* clock reading is t and whose decision is info, against the buckets
\* before (bs) and after (bs2) it: refill by elapsed * (requests / window)
\* capped at requests, success iff tokens >= cost, tokens reduced by cost
\* only on success, the record {tokens, last_refill = t} stored in both
\* cases.
BucketRule(bs, bs2, identifier, limit, cost, t, info) ==
    LET stored == identifier \in DOMAIN bs
        tokens == IF stored THEN bs[identifier].tokens
                  ELSE <<limit.requests, 1>>
        elapsed == IF stored THEN t - bs[identifier].last_refill ELSE 0
        sum == RatAdd(tokens, Rat(elapsed * limit.requests, limit.window))
        refilled == IF RatLeq(sum, <<limit.requests, 1>>) THEN sum
                    ELSE <<limit.requests, 1>>
        enough == RatLeq(<<cost, 1>>, refilled)
    IN  /\ info.exceeded <=> ~enough
        /\ identifier \in DOMAIN bs2
        /\ bs2[identifier].tokens =
              IF enough THEN RatSubInt(refilled, cost) ELSE refilled
        /\ bs2[identifier].last_refill = t

\* The stored tokens of this identifier are fewer after the step.
TokensDecrease(id) ==
    /\ id \in (DOMAIN buckets) \cap (DOMAIN buckets')
    /\ RatLeq(buckets'[id].tokens, buckets[id].tokens)
    /\ buckets'[id].tokens # buckets[id].tokens

\* The step in which the coroutine of caller c runs its script.
ScriptStep(c) ==
    /\ tasks[c].pc = "pipeline"
    /\ tasks'[c].pc = "done"
    /\ tasks[c].limit.strategy = TOKEN_BUCKET

\* C13: token bucket on the Redis path: a check first refills the tokens by
\* elapsed * (requests / window), capped at requests, then succeeds iff
\* tokens >= cost; the tokens are reduced by cost only on success; the
\* record {tokens, last_refill = now} is stored on success and on denial
\* alike; so stored tokens decrease only through a successful consumption.
C13_TokenBucket ==
    [][ /\ \A c \in Callers :
              ScriptStep(c) =>
                  BucketRule(buckets, buckets', tasks[c].identifier,
                             tasks[c].limit, tasks[c].cost,
                             tasks[c].current_time, tasks'[c].info)
        /\ \A id \in Ids :
              TokensDecrease(id) =>
                  \E c \in Callers : /\ ScriptStep(c)
                                      /\ tasks[c].identifier = id
                                      /\ ~tasks'[c].info.exceeded
                                      /\ tasks[c].cost >= 1 ]_vars

\* What the code keeps of C13: the rule of the script, in every
\* interleaving.
BucketRuleKept ==
    [][ \A c \in Callers :
            ScriptStep(c) =>
                BucketRule(buckets, buckets', tasks[c].identifier,
                           tasks[c].limit, tasks[c].cost,
                           tasks[c].current_time, tasks'[c].info) ]_vars

\* What the code keeps of C13 when each check is complete before the next
\* begins: the rule, and no decrease of the stored tokens but through an
\* admitted check.
TokenBucketInClockOrder ==
    [][ /\ RedisStep(TOKEN_BUCKET) =>
              BucketRule(buckets, buckets', last'.identifier, last'.limit,
                         last'.cost, now, last'.info)
        /\ \A id \in Ids :
              TokensDecrease(id) => /\ RedisStep(TOKEN_BUCKET)
                                    /\ last'.identifier = id
                                    /\ ~last'.info.exceeded
                                    /\ last'.cost >= 1 ]_vars

\* C14: sliding window on the Redis path: with burst enabled a check is
\* exceeded iff the counted usage plus cost is greater than requests *
\* burst_multiplier, with burst disabled iff it is greater than requests;
\* remaining is max(0, requests - (usage + cost)) in both cases.
C14_SlidingBurst ==
    [][ RedisStep(SLIDING_WINDOW) =>
          LET limit == last'.limit
              total == UsageIn(zsets, last'.identifier, limit, now) + last'.cost
          IN  /\ last'.info.exceeded <=>
                    IF enable_burst
                    THEN total * BurstDen > limit.requests * BurstNum
                    ELSE total > limit.requests
              /\ last'.info.remaining =
                    IF total >= limit.requests THEN 0
                    ELSE limit.requests - total ]_vars

\* A check admitted by the burst allowance alone: the members it found
\* (all those now in the set but at most its own) plus its cost are more
\* than limit.requests, and remaining is reported as 0.
C14_Witness ==
    /\ Decided(last)
    /\ last.path = "redis"
    /\ last.limit.strategy = SLIDING_WINDOW
    /\ enable_burst
    /\ ~last.info.exceeded
    /\ last.info.remaining = 0
    /\ UsageIn(zsets, last.identifier, last.limit, now) - 1 + last.cost
         > last.limit.requests

\* The case of C15 on a path: the check in `last` is the first one of its
\* second, and an entry was recorded exactly limit.window seconds before
\* (on the Redis sliding window every decided check records an entry, on
\* the fallback every admitted unit does).
TieCase(path) ==
    /\ Decided(last)
    /\ last.path = path
    /\ path = "redis" => last.limit.strategy = SLIDING_WINDOW
    /\ OneLimit
    /\ ChecksAt(history[last.identifier], now).n = 1
    /\ LET tie == ChecksAt(history[last.identifier], now - last.limit.window)
       IN  IF path = "redis" THEN tie.n >= 1 ELSE tie.units >= 1

\* The decision in `last` counted one entry or more before its own cost.
CountedSome(ceiling) ==
    /\ last.info.remaining <= Max(0, last.limit.requests - last.cost - 1)
    /\ (1 + last.cost > ceiling) => last.info.exceeded

\* C15: an entry recorded at exactly now - window is still counted by a
\* check made at now (inclusive lower bound), on the Redis sliding window
\* and on the fallback.
C15_TieIsInside ==
    /\ TieCase("redis") => CountedSome(MaxRequests(enable_burst, last.limit))
    /\ TieCase("memory") => CountedSome(last.limit.requests)

\* The part of C15 that the code keeps: the fallback counts the entry.
TieIsInsideOnFallback ==
    TieCase("memory") => CountedSome(last.limit.requests)

\* A decided check_rate_limit step on either path.
DecidedStep == CheckStep /\ Decided(last')

\* The usage a strategy that counts entries finds for the check in last',
\* before the cost of that check: the sorted-set members inside the window,
\* the counter of the current bucket, or the fallback's timestamps inside
\* the window.
ObservedUsage ==
    LET id == last'.identifier
        limit == last'.limit
    IN  IF last'.path = "memory"
        THEN IF id \in DOMAIN memory_store
             THEN LET reqs == memory_store[id].requests
                  IN  Cardinality({i \in 1..Len(reqs) :
                                     reqs[i] >= now - limit.window})
             ELSE 0
        ELSE IF limit.strategy = SLIDING_WINDOW
             THEN UsageIn(zsets, id, limit, now)
             ELSE LET key == <<id, now - (now % limit.window)>>
                  IN  IF key \in DOMAIN counters THEN counters[key].val ELSE 0

\* The tokens the bucket of the check in last' holds after the refill and
\* before the consumption: capacity - observedUsage.
TokensBefore ==
    LET id == last'.identifier
        limit == last'.limit
        full == <<limit.requests, 1>>
    IN  IF id \in DOMAIN buckets
        THEN LET sum == RatAdd(buckets[id].tokens,
                               Rat((now - buckets[id].last_refill)
                                   * limit.requests, limit.window))
             IN  IF RatLeq(sum, full) THEN sum ELSE full
        ELSE full

IsBucketStep == last'.path = "redis" /\ last'.limit.strategy = TOKEN_BUCKET

\* C16 as stated: every decision has remaining = max(0, limit -
\* observedUsage) and exceeded <=> observedUsage + cost > effectiveLimit,
\* the effective limit including the burst allowance for the sliding and
\* the fixed window and being the capacity for the token bucket.
C16_DecisionInvariantAsStated ==
    [][ DecidedStep =>
          IF IsBucketStep
          THEN /\ last'.info.remaining = RatTrunc(TokensBefore)
               /\ last'.info.exceeded <=>
                     ~RatLeq(<<last'.cost, 1>>, TokensBefore)
          ELSE LET effective ==
                     IF last'.path = "redis"
                     THEN MaxRequests(enable_burst, last'.limit)
                     ELSE last'.limit.requests
               IN  /\ last'.info.remaining =
                         Max(0, last'.limit.requests - ObservedUsage)
                   /\ last'.info.exceeded <=>
                         (ObservedUsage + last'.cost > effective) ]_vars

\* C16 amended: remaining is computed after the cost of the check:
\* max(0, requests - (observedUsage + cost)) for the sliding window, the
\* fixed window and the fallback, and for the token bucket the whole
\* tokens left after the consumption (after the refill alone when the
\* check is denied); exceeded <=> observedUsage + cost > effectiveLimit,
\* where the burst allowance enters for the Redis sliding window only and
\* the effective limit is requests for the fixed window, the fallback and
\* the token bucket (its capacity).
C16_DecisionInvariant ==
    [][ DecidedStep =>
          IF IsBucketStep
          THEN LET enough == RatLeq(<<last'.cost, 1>>, TokensBefore)
               IN  /\ last'.info.exceeded <=> ~enough
                   /\ last'.info.remaining =
                         IF enough
                         THEN RatTrunc(RatSubInt(TokensBefore, last'.cost))
                         ELSE RatTrunc(TokensBefore)
          ELSE LET total == ObservedUsage + last'.cost
                   effective ==
                     IF /\ last'.path = "redis"
                        /\ last'.limit.strategy = SLIDING_WINDOW
                        /\ enable_burst
                     THEN (last'.limit.requests * BurstNum) \div BurstDen
                     ELSE last'.limit.requests
               IN  /\ last'.info.remaining =
                         Max(0, last'.limit.requests - total)
                   /\ last'.info.exceeded <=> (total > effective) ]_vars

\* A decision that found usage: an admitted check of cost 1 or more, not
\* the first of its second, that reports remaining below requests - cost.
C16_Witness ==
    /\ Decided(last)
    /\ ~last.info.exceeded
    /\ last.cost >= 1
    /\ ChecksAt(history[last.identifier], now).n >= 2
    /\ last.info.remaining < last.limit.requests - last.cost

\* The same requests and window under the sliding-window strategy.
AsSliding(limit) == [limit EXCEPT !.strategy = SLIDING_WINDOW]

\* C17: a decision of the fallback reports strategy "memory_fallback" and
\* is the decision a sliding_window limit with the same requests and
\* window gets, whatever limit.strategy is; a decision of the Redis path
\* reports the value of limit.strategy.
C17_FallbackIsSliding ==
    /\ (Decided(last) /\ last.path = "memory")
          => last.info.strategy = "memory_fallback"
    /\ (Decided(last) /\ last.path = "redis")
          => last.info.strategy = last.limit.strategy
    /\ ~redis_lib =>
          \A id \in Ids, arg \in presets, cost \in Costs,
             t \in now..(Epoch + Horizon) :
              check_memory_rate_limit(memory_store, id, LimitOf(arg), cost, t)
                = check_memory_rate_limit(memory_store, id,
                                          AsSliding(LimitOf(arg)), cost, t)

\* A fixed_window limit on the fallback: the first check of a new bucket,
\* of a cost within the limit, is denied because of the units admitted in
\* the bucket before (a fixed window would admit it).
C17_Witness ==
    /\ Decided(last)
    /\ last.path = "memory"
    /\ last.limit.strategy = FIXED_WINDOW
    /\ last.info.strategy = "memory_fallback"
    /\ last.info.exceeded
    /\ last.cost <= last.limit.requests
    /\ now % last.limit.window = 0
    /\ ChecksAt(history[last.identifier], now).n = 1

\* C18: building a limit with requests <= 0 or window <= 0 fails, so no
\* such limit exists and no check is ever executed with one.
C18_InvalidConfigRejected ==
    /\ \A limit \in presets : limit.requests > 0 /\ limit.window > 0
    /\ last.op = "check" => last.limit.requests > 0 /\ last.limit.window > 0

\* What the code does with such limits: a check with window = 0 (fixed
\* window, token bucket) or with requests = 0 (denied token bucket) on the
\* Redis path ends in ZeroDivisionError, every other check is decided.
InvalidConfigAsCoded ==
    last.op = "check" =>
        IF last.raised = "ZeroDivisionError"
        THEN /\ last.path = "redis"
             /\ last.limit.requests = 0 \/ last.limit.window = 0
        ELSE last.raised \in {"none", "RateLimitExceededException",
                              "ConnectionError"}

\* The coroutines that have returned a decision.
DoneTasks == {c \in Callers : tasks[c].pc = "done"}

\* The serial orders of a set of callers.
Orders(S) ==
    {f \in [1..Cardinality(S) -> S] :
        \A i, j \in 1..Cardinality(S) : f[i] = f[j] => i = j}

\* The Redis data and the decisions after the checks of the callers in
\* `order`, from the i-th on, are made one after the other, each complete
\* before the next begins, starting from the data in st.
RECURSIVE SerialFrom(_, _, _)
SerialFrom(order, i, st) ==
    IF i > Len(order) THEN st
    ELSE LET c == order[i]
             r == check_redis_rate_limit(st.zsets, st.counters, st.buckets,
                                         enable_burst, tasks[c].identifier,
                                         tasks[c].limit, tasks[c].cost,
                                         tasks[c].current_time)
         IN  SerialFrom(order, i + 1,
                        [zsets |-> r.zsets, counters |-> r.counters,
                         buckets |-> r.buckets,
                         infos |-> Put(st.infos, c, r.info)])

\* C19: on the Redis path the read-modify-write of a check is one atomic
\* operation of the store: under every interleaving of concurrent checks
\* on one identifier, the decisions returned and the data in the store are
\* those of some serial order of the same checks.
C19_ChecksSerializable ==
    redis_lib =>
        \E order \in Orders(DoneTasks) :
            LET st == SerialFrom(order, 1,
                                 [zsets |-> EmptyMap, counters |-> EmptyMap,
                                  buckets |-> EmptyMap, infos |-> EmptyMap])
            IN  /\ st.zsets = zsets
                /\ st.counters = counters
                /\ st.buckets = buckets
                /\ \A c \in DoneTasks : st.infos[c] = tasks[c].info

\* Two checks that overlapped: both read the clock before either reached
\* the store (the one that read it first reached the store last), both
\* wanted every token of the bucket, and one of them was denied.
C19_Witness ==
    /\ redis_lib
    /\ DoneTasks = Callers
    /\ \A c \in Callers : /\ tasks[c].limit.strategy = TOKEN_BUCKET
                          /\ tasks[c].cost = tasks[c].limit.requests
    /\ \E c, d \in Callers :
          /\ tasks[c].current_time < tasks[d].current_time
          /\ buckets[tasks[c].identifier].last_refill = tasks[c].current_time
          /\ tasks[c].info.exceeded
          /\ ~tasks[d].info.exceeded

RECURSIVE SumCosts(_)
SumCosts(S) ==
    IF S = {} THEN 0
    ELSE LET c == CHOOSE x \in S : TRUE
         IN  tasks[c].cost + SumCosts(S \ {c})

\* The units of the checks admitted with a clock reading in from..to.
AdmittedBetween(from, to) ==
    SumCosts({c \in DoneTasks : /\ ~tasks[c].info.exceeded
                                /\ tasks[c].current_time \in from..to})

\* The timestamps equal to t in the fallback record of an identifier.
EntriesAt(identifier, t) ==
    IF identifier \in DOMAIN memory_store
    THEN LET reqs == memory_store[identifier].requests
         IN  Cardinality({i \in 1..Len(reqs) : reqs[i] = t})
    ELSE 0

CheckedRequest ==
    /\ CheckStep
    /\ Decided(last')
    /\ ~Excluded(response'.path)
    /\ response'.method # "OPTIONS"

\* C21: in RateLimitMiddleware, a checked request that is denied is answered
\* with status 429 and a Retry-After header and is never passed downstream;
\* one that is admitted is passed downstream exactly once and its response
\* carries the limit, remaining and reset values of the decision.
C21_MiddlewareAnswers ==
    [][ CheckedRequest =>
          IF last'.info.exceeded
          THEN /\ response'.raised = "none"
               /\ response'.status_code = 429
               /\ "Retry-After" \in DOMAIN response'.headers
               /\ response'.passed = 0
          ELSE /\ response'.raised = "none"
               /\ response'.passed = 1
               /\ response'.headers["X-RateLimit-Limit"]
                     = Str(last'.info.limit)
               /\ response'.headers["X-RateLimit-Remaining"]
                     = Str(last'.info.remaining)
               /\ response'.headers["X-RateLimit-Reset"]
                     = Str(last'.info.reset_time) ]_vars

\* The parts of C21 the code keeps: a denied request is never passed
\* downstream, and an admitted one is passed once with the three values.
MiddlewareAdmits ==
    [][ CheckedRequest =>
          IF last'.info.exceeded
          THEN response'.passed = 0
          ELSE /\ response'.raised = "none"
               /\ response'.passed = 1
               /\ response'.headers["X-RateLimit-Limit"]
                     = Str(last'.info.limit)
               /\ response'.headers["X-RateLimit-Remaining"]
                     = Str(last'.info.remaining)
               /\ response'.headers["X-RateLimit-Reset"]
                     = Str(last'.info.reset_time) ]_vars

\* A denied request has been dispatched.
DeniedRequest ==
    /\ Decided(last) /\ last.info.exceeded
    /\ response.rate_limit = last.limit

\* The backend a check is answered from.
Backend(c) == IF Decided(c) THEN c.path ELSE "none"

\* C22: the backend of a check is chosen at each call from the store's
\* reachability at that moment: a check made while the store is unreachable
\* is answered by the fallback, and a check made while it is reachable is
\* answered by the store, whatever the earlier checks used.
C22_BackendFollowsReachability ==
    [][ \A limit \in presets, cost \in Costs, store_up \in BOOLEAN :
          ( /\ redis_lib
            /\ check_rate_limit(user_1, limit, cost, store_up) )
          => Backend(last') = IF store_up THEN "redis" ELSE "memory" ]_vars

\* The part of C22 the code keeps: a reachable store answers the check,
\* also after a check that found it unreachable.
ReachableStoreAnswers ==
    [][ \A limit \in presets, cost \in Costs :
          ( /\ redis_lib
            /\ check_rate_limit(user_1, limit, cost, TRUE) )
          => Backend(last') = "redis" ]_vars

\* The backend is fixed when the client is built: no check of a process
\* with a Redis client is answered by the fallback.
BackendIsStatic ==
    Decided(last) => last.path = IF redis_lib THEN "redis" ELSE "memory"

\* C23: on the Redis sliding window the usage counted for an identifier is
\* the total cost of its earlier checks still inside the window: each check
\* raises the usage that the next check inside the window counts by its own
\* cost, also when checks of the same cost are made in the same second and
\* when the cost is greater than 1.
C23_UsageIsTotalCost ==
    [][ RedisStep(SLIDING_WINDOW)
        => UsageIn(zsets', last'.identifier, last'.limit, now)
             = UsageIn(zsets, last'.identifier, last'.limit, now)
               + last'.cost ]_vars

\* What the code does instead: the usage is the number of distinct members
\* "{current_time}:{cost}", so a check raises it by one when no check of
\* the same cost was made in the same second, and by nothing otherwise.
UsageCountsMembers ==
    [][ RedisStep(SLIDING_WINDOW)
        => UsageIn(zsets', last'.identifier, last'.limit, now)
             = UsageIn(zsets, last'.identifier, last'.limit, now)
               + (IF Member(now, last'.cost)
                       \in ZMembers(zsets, last'.identifier)
                  THEN 0 ELSE 1) ]_vars

\* Every check of this process goes to the Redis sliding window.
SlidingOnRedis ==
    redis_lib /\ \A arg \in presets : LimitOf(arg).strategy = SLIDING_WINDOW

\* The units admitted for id at the clock readings from..to.
AdmittedWithin(id, from, to) ==
    SumUnits(history[id],
             {t \in DOMAIN history[id] : from <= t /\ t <= to})

\* C24: on the Redis sliding window, for every identifier, the total cost of
\* the checks admitted within any interval shorter than `window` seconds
\* never exceeds the effective limit: requests, or int(requests *
\* burst_multiplier) when burst is enabled.
C24_AdmittedWithinLimit ==
    SlidingOnRedis =>
        \A id \in Ids, arg \in presets :
          \A to \in DOMAIN history[id] :
            AdmittedWithin(id, to - LimitOf(arg).window + 1, to)
                <= MaxRequests(enable_burst, LimitOf(arg))

\* C25: given the same sequence of check calls (identifiers, costs and
\* times) with burst disabled, the fallback returns the same exceeded and
\* remaining values at every call as the Redis sliding window.
C25_FallbackRefinesSliding ==
    DoneTasks = Callers =>
        /\ tasks["b"].info.exceeded = tasks["a"].info.exceeded
        /\ tasks["b"].info.remaining = tasks["a"].info.remaining

\* The two agree on what they report besides the usage: the limit and the
\* reset time of every call, and the whole decision of the first call.
TwinsAgreeAtFirst ==
    DoneTasks = Callers =>
        /\ tasks["b"].info.limit = tasks["a"].info.limit
        /\ tasks["b"].info.reset_time = tasks["a"].info.reset_time
        /\ calls = 1 => /\ tasks["b"].info.exceeded = tasks["a"].info.exceeded
                        /\ tasks["b"].info.remaining
                              = tasks["a"].info.remaining

\* The two disagree for a reason other than the member format: all checks
\* so far had cost 1 and distinct clock readings.
TieDisagreement ==
    /\ DoneTasks = Callers
    /\ tasks["a"].cost = 1
    /\ tasks["a"].limit = RateLimit(1, 1, SLIDING_WINDOW)
    /\ calls = 2
    /\ ~tasks["a"].info.exceeded
    /\ tasks["b"].info.exceeded

\* All that the stores hold for an identifier: its sorted set, its window
\* counters, its bucket and its fallback record.
StateOf(zs, cs, bs, ms, id) ==
    [zset |-> IF id \in DOMAIN zs THEN {zs[id]} ELSE {},
     counters |-> {<<k, cs[k]>> : k \in {x \in DOMAIN cs : x[1] = id}},
     bucket |-> IF id \in DOMAIN bs THEN {bs[id]} ELSE {},
     record |-> IF id \in DOMAIN ms THEN {ms[id]} ELSE {}]

NoState == StateOf(EmptyMap, EmptyMap, EmptyMap, EmptyMap, <<>>)

\* A reset_rate_limit call that returned.
ResetStep == last'.op = "reset" /\ last'.raised = "none" /\ last' # last

\* C26: reset_rate_limit(id) clears the state of id only: what the stores
\* hold for every other identifier, user_10 when user_1 is reset included,
\* is the same after the reset as before, on both paths.
C26_ResetFrame ==
    [][ ResetStep =>
          \A other \in Ids \ {last'.identifier} :
              StateOf(zsets', counters', buckets', memory_store', other)
                = StateOf(zsets, counters, buckets, memory_store, other) ]_vars

\* The part of C26 the code keeps: the frame holds on the fallback path,
\* and on the Redis path for an identifier whose name does not begin with
\* the name that is reset.
ResetFrameOfOtherNames ==
    [][ ResetStep =>
          \A other \in Ids \ {last'.identifier} :
              ( ~redis_lib \/ ~IsPrefix(last'.identifier, other) )
              => StateOf(zsets', counters', buckets', memory_store', other)
                   = StateOf(zsets, counters, buckets, memory_store, other)
      ]_vars

\* user_10 is reset while user_1 has state, which is kept.
OtherNameKept ==
    /\ last.op = "reset" /\ last.raised = "none"
    /\ last.identifier = user_10
    /\ StateOf(zsets, counters, buckets, memory_store, user_1) # NoState

\* ceil(a / b) for b > 0.
CeilDiv(a, b) == -((-a) \div b)

\* ceil((cost - tokens) / refillRate) with refillRate = requests / window,
\* for the tokens <<n, d>> left in the bucket.
SecondsToRefill(cost, tokens, limit) ==
    CeilDiv((cost * tokens[2] - tokens[1]) * limit.window,
            tokens[2] * limit.requests)

\* C27: a denied token-bucket check that leaves `tokens` in the bucket has
\* retry_after = ceil((cost - tokens) / refillRate), refillRate = requests
\* / window, also when (cost - tokens) / refillRate is a whole number.
C27_RetryAfterIsCeiling ==
    [][ ( RedisStep(TOKEN_BUCKET) /\ last'.info.exceeded )
        => last'.info.retry_after
             = SecondsToRefill(last'.cost,
                               buckets'[last'.identifier].tokens,
                               last'.limit) ]_vars

\* What the code keeps of C27: the wait is never shorter than the ceiling.
RetryAfterNeverShort ==
    [][ ( RedisStep(TOKEN_BUCKET) /\ last'.info.exceeded )
        => SecondsToRefill(last'.cost, buckets'[last'.identifier].tokens,
                           last'.limit)
             <= last'.info.retry_after ]_vars

\* C28: in every decision of every strategy and of the fallback,
\* retry_after = 0 when exceeded is false and retry_after >= 1 when exceeded
\* is true.
C28_RetryAfterSign ==
    Decided(last) =>
        IF last.info.exceeded
        THEN last.info.retry_after >= 1
        ELSE last.info.retry_after = 0

\* The part of C28 the code keeps: the same for every limit whose window is
\* at least one second.
RetryAfterSignOfValidWindows ==
    ( Decided(last) /\ last.limit.window >= 1 ) =>
        IF last.info.exceeded
        THEN last.info.retry_after >= 1
        ELSE last.info.retry_after = 0

\* A check answered by the fallback.
MemoryStep == CheckStep /\ Decided(last') /\ last'.path = "memory"

\* The identifiers of the map idle for longer than the retention.
Stale == {i \in DOMAIN memory_store :
             memory_store[i].last_access < now - RetentionSeconds}

\* C29: fallback cleanup runs inline in a check only when the map holds
\* more than CleanupThreshold identifiers; it then removes exactly the
\* identifiers whose last_access is older than now - RetentionSeconds and
\* leaves the record of every other identifier unchanged; at or below the
\* threshold no identifier is removed.  The identifier being checked gets
\* its record written by the check itself.
C29_CleanupFrame ==
    [][ MemoryStep =>
          LET others == DOMAIN memory_store \ {last'.identifier}
              removed == IF Cardinality(DOMAIN memory_store)
                               > CleanupThreshold
                         THEN Stale ELSE {}
          IN  /\ DOMAIN memory_store' \ {last'.identifier}
                    = others \ removed
              /\ \A i \in others \ removed :
                    memory_store'[i] = memory_store[i]
              /\ last'.identifier \in DOMAIN memory_store' ]_vars

\* A cleanup has run: the stale identifiers are gone and the one idle for
\* exactly the retention is still there.
C29_Witness ==
    /\ calls >= 1
    /\ Idler(2) \notin DOMAIN memory_store
    /\ Idler(1) \in DOMAIN memory_store
    /\ memory_store[Idler(1)].last_access = now - RetentionSeconds

\* A check has run with exactly CleanupThreshold identifiers in the map,
\* stale ones among them, and none was removed.
NoCleanupAtThreshold ==
    /\ calls >= 1
    /\ Cardinality(DOMAIN memory_store) = CleanupThreshold + 1
    /\ Idler(CleanupThreshold) \in DOMAIN memory_store
    /\ memory_store[Idler(CleanupThreshold)].last_access
          < now - RetentionSeconds

\* The limit of "/comments": 30 requests per 3600 seconds.
CommentsLimit == RateLimit(30, 3600, SLIDING_WINDOW)

\* A POST request for the comments of a post has been routed.
PostsComments ==
    /\ response.method = "POST"
    /\ ContainsPostsSlash(response.path)
    /\ EndsWithComments(response.path)

\* C30: get_rate_limit_for_path returns the comments limit (30 per 3600 s)
\* for every POST request whose path contains /posts/ and ends with
\* /comments.
C30_CommentsLimit ==
    PostsComments => response.rate_limit = CommentsLimit

\* The part of C30 the code keeps: the comments limit is returned when the
\* path begins with none of the patterns of RATE_LIMITS, and the limit of
\* the first pattern it begins with otherwise.
CommentsLimitBehindPrefix ==
    PostsComments =>
        response.rate_limit =
            IF StartsWith(response.path, <<"/posts">>)
            THEN RateLimit(10, 3600, SLIDING_WINDOW)
            ELSE IF StartsWith(response.path, <<"/comments">>)
            THEN CommentsLimit
            ELSE IF StartsWith(response.path, <<"/auth", "/login">>)
            THEN RateLimit(5, 300, SLIDING_WINDOW)
            ELSE IF StartsWith(response.path, <<"/auth", "/register">>)
            THEN RateLimit(3, 3600, SLIDING_WINDOW)
            ELSE CommentsLimit

\* A path behind another prefix gets the comments limit.
CommentsLimitReturned ==
    /\ PostsComments
    /\ response.path = <<"/api", "/posts", "/comments">>
    /\ response.rate_limit = CommentsLimit

====
